---- MODULE Spec2Model ----
(***************************************************************************)
(* Session cart, catalog update/delete and registration handlers of app.py *)
(* as a state machine.  Every handler that runs between its session read   *)
(* and its response without yielding is one action; register is two steps  *)
(* (the SELECT by email, then the INSERT), since two requests may          *)
(* interleave between them.                                                *)
(*                                                                         *)
(* Conventions.  Prices are Python floats in the source; the model scales  *)
(* them by 100 and keeps integers (3.99 is 399), so float rounding is not  *)
(* modelled.  Python str values that are converted (dict keys made by      *)
(* str(product_id), form and JSON quantities, JSON prices) are sequences   *)
(* of one-character strings; opaque text (names, categories, emails) is a  *)
(* TLA+ string.  A dynamically typed value is a record [kind, n, s].       *)
(* Dict insertion order is not modelled (a dict is a function).            *)
(***************************************************************************)
EXTENDS Integers, Sequences, FiniteSets, TLC

VARIABLES
    products,   \* Product table: id -> [name, category, price]
    cart,       \* session id -> session['cart'] (key -> CartLine)
    users,      \* User table, in insertion order
    reg,        \* in-flight /register requests: request -> [pc, name, email]
    last        \* the last request handled and the response it produced

vars == <<products, cart, users, reg, last>>

-----------------------------------------------------------------------------
(* Bounds of the exploration *)

\* Stored integer quantities are explored within -MaxQty .. MaxQty.
MaxQty == 2

\* Stored string quantities are explored up to this length.
MaxStrLen == 2

-----------------------------------------------------------------------------
(* Dynamically typed values *)

JInt(n) == [kind |-> "int", n |-> n, s |-> <<>>]
JStr(s) == [kind |-> "str", n |-> 0, s |-> s]
Absent == [kind |-> "absent", n |-> 0, s |-> <<>>]

\* dict.get(key, default) / request.form.get(key, default)
GetOr(v, default) == IF v.kind = "absent" THEN default ELSE v

Digits == <<"0", "1", "2", "3", "4", "5", "6", "7", "8", "9">>

IsDigit(c) == \E d \in 1..10 : Digits[d] = c

DigitVal(c) == (CHOOSE d \in 1..10 : Digits[d] = c) - 1

\* str(n) of a non-negative int (the route converter <int:...> yields no other)
RECURSIVE Str(_)
Str(n) == IF n < 10 THEN <<Digits[n + 1]>>
          ELSE Str(n \div 10) \o <<Digits[(n % 10) + 1]>>

AllDigits(s) == Len(s) > 0 /\ \A i \in 1..Len(s) : IsDigit(s[i])

RECURSIVE NatOf(_)
NatOf(s) == IF Len(s) = 0 THEN 0
            ELSE 10 * NatOf(SubSeq(s, 1, Len(s) - 1)) + DigitVal(s[Len(s)])

\* The literals int() accepts over the alphabet used here: [+-]?[0-9]+
IsIntLiteral(s) ==
    /\ Len(s) > 0
    /\ IF s[1] \in {"-", "+"} THEN AllDigits(Tail(s)) ELSE AllDigits(s)

IntOf(s) == IF s[1] = "-" THEN 0 - NatOf(Tail(s))
            ELSE IF s[1] = "+" THEN NatOf(Tail(s))
            ELSE NatOf(s)

\* int(x): [ok, n]; not ok is ValueError
PyInt(v) ==
    IF v.kind = "int" THEN [ok |-> TRUE, n |-> v.n]
    ELSE IF v.kind = "str" /\ IsIntLiteral(v.s) THEN [ok |-> TRUE, n |-> IntOf(v.s)]
    ELSE [ok |-> FALSE, n |-> 0]

\* float(x) in the model's price unit: [ok, n]; not ok is ValueError
PyFloat(v) ==
    IF v.kind = "int" THEN [ok |-> TRUE, n |-> v.n]
    ELSE IF v.kind = "str" /\ IsIntLiteral(v.s) THEN [ok |-> TRUE, n |-> IntOf(v.s)]
    ELSE [ok |-> FALSE, n |-> 0]

\* a += b on quantities: int + int, str + str; anything else is TypeError
PyAdd(a, b) ==
    IF a.kind = "int" /\ b.kind = "int" THEN [ok |-> TRUE, v |-> JInt(a.n + b.n)]
    ELSE IF a.kind = "str" /\ b.kind = "str" THEN [ok |-> TRUE, v |-> JStr(a.s \o b.s)]
    ELSE [ok |-> FALSE, v |-> Absent]

\* price * quantity: float * int; float * str is TypeError
PyMul(price, q) ==
    IF q.kind = "int" THEN [ok |-> TRUE, n |-> price * q.n]
    ELSE [ok |-> FALSE, n |-> 0]

-----------------------------------------------------------------------------
(* Dicts *)

EmptyDict == [k \in {} |-> Absent]

DictSet(d, k, v) == [x \in (DOMAIN d) \cup {k} |-> IF x = k THEN v ELSE d[x]]

DictDel(d, k) == [x \in (DOMAIN d) \ {k} |-> d[x]]

-----------------------------------------------------------------------------
(* Responses *)

\* jsonify({...}) [, status]; optional members are sequences of length <= 1
Response(status, success, error) ==
    [status |-> status, success |-> success, error |-> error, unhandled |-> FALSE,
     name |-> "", cart_count |-> <<>>, total |-> <<>>, items |-> <<>>]

\* an exception that leaves the view function: Flask answers 500
Unhandled(exc) ==
    [Response(500, "none", exc) EXCEPT !.unhandled = TRUE]

\* abort(404) raised by get_or_404 outside any try: Flask's 404 page
Abort404 == Response(404, "none", "NotFound")

\* except Exception as e: jsonify({'success': False, 'error': str(e)}), 400
Caught(exc) == Response(400, "false", exc)

\* a handled request: the route, the session (or /register request), the
\* product id and quantity it named, and the response
Request(op, sid, pid, qty, resp) ==
    [op |-> op, sid |-> sid, pid |-> pid, qty |-> qty, email |-> "", resp |-> resp]

\* a handled POST /register, with form.email.data
Registration(r, email, resp) ==
    [Request("register", r, 0, Absent, resp) EXCEPT !.email = email]

-----------------------------------------------------------------------------
(* Catalog *)

SeedProducts ==
    (1 :> [name |-> "Organic Tomatoes", category |-> "Vegetables", price |-> 399])
    @@ (2 :> [name |-> "Fresh Apples", category |-> "Fruits", price |-> 249])

\* Product.query.get(id) is not None
Exists(pid) == pid \in DOMAIN products

-----------------------------------------------------------------------------
(* Session cart *)

\* Variant: the cart kept in one process-wide dict instead of the session
SessionStoreShared(all, s, c) == [t \in DOMAIN all |-> c]

\* session['cart'] = cart; session.modified = True
SessionStore(all, s, c) == [all EXCEPT ![s] = c]

\* Variant: a repeat add re-reads name and price from the Product row
CartAfterAddRefresh(c, key, pid, q) ==
    IF key \in DOMAIN c
    THEN [c EXCEPT ![key].quantity = PyAdd(@, q).v,
                   ![key].name = products[pid].name,
                   ![key].price = products[pid].price]
    ELSE DictSet(c, key, [id |-> pid,
                          name |-> products[pid].name,
                          price |-> products[pid].price,
                          quantity |-> q])

\* if str(product_id) in cart: cart[key]['quantity'] += quantity
\* else: cart[key] = {id, name, price: float(product.price), quantity}
\* (the same text in add_to_cart and api_add_to_cart)
CartAfterAdd(c, key, pid, q) ==
    IF key \in DOMAIN c
    THEN [c EXCEPT ![key].quantity = PyAdd(@, q).v]
    ELSE DictSet(c, key, [id |-> pid,
                          name |-> products[pid].name,
                          price |-> PyFloat(JInt(products[pid].price)).n,
                          quantity |-> q])

\* del cart[product_id_str]
CartAfterRemove(c, key) == DictDel(c, key)

\* Variant: the count of units, sum(item['quantity']), instead of len(cart)
RECURSIVE UnitsIn(_, _)
UnitsIn(c, keys) ==
    IF keys = {} THEN 0
    ELSE LET k == CHOOSE x \in keys : TRUE
         IN (IF c[k].quantity.kind = "int" THEN c[k].quantity.n ELSE 1)
            + UnitsIn(c, keys \ {k})

CartUnits(c) == UnitsIn(c, DOMAIN c)

\* len(cart)
CartCount(c) == Cardinality(DOMAIN c)

\* The quantities the exploration keeps
WithinBounds(q) ==
    /\ q.kind = "int" => (q.n >= 0 - MaxQty /\ q.n <= MaxQty)
    /\ q.kind = "str" => Len(q.s) <= MaxStrLen

\* sum(item['price'] * item['quantity'] for item in ...) over the lines `keys`:
\* [ok, n]; not ok is the TypeError of float * str
RECURSIVE SumLines(_, _)
SumLines(c, keys) ==
    IF keys = {} THEN [ok |-> TRUE, n |-> 0]
    ELSE LET k == CHOOSE x \in keys : TRUE
             m == PyMul(c[k].price, c[k].quantity)
             rest == SumLines(c, keys \ {k})
         IN [ok |-> m.ok /\ rest.ok, n |-> m.n + rest.n]

\* total of view_cart
CartTotal(c) == SumLines(c, DOMAIN c)

\* Variant: api_get_cart without the `if product:` filter
AllLines(c) == DOMAIN c

\* the lines api_get_cart keeps: Product.query.get(int(product_id)) is truthy
Resolvable(c) == {k \in DOMAIN c : Exists(IntOf(k))}

\* one element of api_get_cart's cart_items
Item(c, k) ==
    [id |-> IntOf(k), name |-> c[k].name, price |-> c[k].price,
     quantity |-> c[k].quantity, subtotal |-> PyMul(c[k].price, c[k].quantity).n]

\* POST /add_to_cart/<int:product_id>, form field quantity = fq
add_to_cart(s, pid, fq) ==
    LET q == PyInt(GetOr(fq, JInt(1)))
        key == Str(pid)
        c == cart[s]
        c2 == CartAfterAdd(c, key, pid, JInt(q.n))
    IN  IF ~q.ok
        THEN /\ last' = Request("add_to_cart", s, pid, fq, Unhandled("ValueError"))
             /\ UNCHANGED <<products, cart, users, reg>>
        ELSE IF ~Exists(pid)
        THEN /\ last' = Request("add_to_cart", s, pid, fq, Abort404)
             /\ UNCHANGED <<products, cart, users, reg>>
        ELSE IF key \in DOMAIN c /\ ~PyAdd(c[key].quantity, JInt(q.n)).ok
        THEN /\ last' = Request("add_to_cart", s, pid, fq, Unhandled("TypeError"))
             /\ UNCHANGED <<products, cart, users, reg>>
        ELSE /\ WithinBounds(c2[key].quantity)
             /\ cart' = SessionStore(cart, s, c2)
             /\ last' = Request("add_to_cart", s, pid, fq,
                            [Response(200, "true", "") EXCEPT
                                !.name = products[pid].name,
                                !.cart_count = <<CartCount(c2)>>])
             /\ UNCHANGED <<products, users, reg>>

\* GET /cart
view_cart(s) ==
    LET t == CartTotal(cart[s])
    IN  /\ last' = Request("view_cart", s, 0, Absent,
                       IF t.ok
                       THEN [Response(200, "none", "") EXCEPT !.total = <<t.n>>]
                       ELSE Unhandled("TypeError"))
        /\ UNCHANGED <<products, cart, users, reg>>

\* GET /remove_from_cart/<int:product_id>
remove_from_cart(s, pid) ==
    LET key == Str(pid)
        c == cart[s]
    IN  IF key \in DOMAIN c
        THEN /\ cart' = SessionStore(cart, s, CartAfterRemove(c, key))
             /\ last' = Request("remove_from_cart", s, pid, Absent,
                            [Response(200, "true", "") EXCEPT !.name = c[key].name])
             /\ UNCHANGED <<products, users, reg>>
        ELSE \* product_name was never bound: the f-string raises
             /\ last' = Request("remove_from_cart", s, pid, Absent,
                            Unhandled("UnboundLocalError"))
             /\ UNCHANGED <<products, cart, users, reg>>

\* GET /api/cart
api_get_cart(s) ==
    LET c == cart[s]
        keep == Resolvable(c)
        t == SumLines(c, keep)
    IN  /\ last' = Request("api_get_cart", s, 0, Absent,
                       IF t.ok
                       THEN [Response(200, "true", "") EXCEPT
                                !.items = <<{Item(c, k) : k \in keep}>>,
                                !.total = <<t.n>>,
                                !.cart_count = <<CartCount(c)>>]
                       ELSE Caught("TypeError"))
        /\ UNCHANGED <<products, cart, users, reg>>

\* POST /api/cart, JSON body {product_id: jp, quantity: jq}
api_add_to_cart(s, jp, jq) ==
    LET pid == jp.n
        q == GetOr(jq, JInt(1))
        key == Str(pid)
        c == cart[s]
        c2 == CartAfterAdd(c, key, pid, q)
    IN  IF jp.kind = "absent"
        THEN /\ last' = Request("api_add_to_cart", s, 0, jq, Caught("KeyError"))
             /\ UNCHANGED <<products, cart, users, reg>>
        ELSE IF ~Exists(pid)
        THEN /\ last' = Request("api_add_to_cart", s, pid, jq, Caught("NotFound"))
             /\ UNCHANGED <<products, cart, users, reg>>
        ELSE IF key \in DOMAIN c /\ ~PyAdd(c[key].quantity, q).ok
        THEN /\ last' = Request("api_add_to_cart", s, pid, jq, Caught("TypeError"))
             /\ UNCHANGED <<products, cart, users, reg>>
        ELSE /\ WithinBounds(c2[key].quantity)
             /\ cart' = SessionStore(cart, s, c2)
             /\ last' = Request("api_add_to_cart", s, pid, jq,
                            [Response(200, "true", "") EXCEPT
                                !.name = products[pid].name,
                                !.cart_count = <<CartCount(c2)>>])
             /\ UNCHANGED <<products, users, reg>>

\* DELETE /api/cart/remove/<int:product_id>
api_remove_from_cart(s, pid) ==
    LET key == Str(pid)
        c == cart[s]
        c2 == CartAfterRemove(c, key)
    IN  IF key \in DOMAIN c
        THEN /\ cart' = SessionStore(cart, s, c2)
             /\ last' = Request("api_remove_from_cart", s, pid, Absent,
                            [Response(200, "true", "") EXCEPT
                                !.name = c[key].name,
                                !.cart_count = <<CartCount(c2)>>])
             /\ UNCHANGED <<products, users, reg>>
        ELSE /\ last' = Request("api_remove_from_cart", s, pid, Absent,
                            Response(404, "false", "Product not found in cart"))
             /\ UNCHANGED <<products, cart, users, reg>>

-----------------------------------------------------------------------------
(* Catalog API *)

\* product.name = data['name']; product.category = data['category'];
\* product.price = float(data['price']); db.session.commit()
ProductsAfterUpdate(ps, pid, data) ==
    [ps EXCEPT ![pid] = [name |-> data.name[1],
                         category |-> data.category[1],
                         price |-> PyFloat(data.price).n]]

\* db.session.delete(product); db.session.commit()
ProductsAfterDelete(ps, pid) == DictDel(ps, pid)

\* Variant: Product.query.get() with an insert when the row is missing
api_update_product_upsert(pid, data) ==
    IF data.name = <<>> \/ data.category = <<>> \/ data.price.kind = "absent"
    THEN /\ last' = Request("api_update_product", "", pid, Absent, Caught("KeyError"))
         /\ UNCHANGED <<products, cart, users, reg>>
    ELSE IF ~PyFloat(data.price).ok
    THEN /\ last' = Request("api_update_product", "", pid, Absent, Caught("ValueError"))
         /\ UNCHANGED <<products, cart, users, reg>>
    ELSE /\ products' = DictSet(products, pid,
                                [name |-> data.name[1],
                                 category |-> data.category[1],
                                 price |-> PyFloat(data.price).n])
         /\ last' = Request("api_update_product", "", pid, Absent,
                        Response(200, "true", ""))
         /\ UNCHANGED <<cart, users, reg>>

\* PUT /api/products/<int:product_id>, JSON body data
api_update_product(pid, data) ==
    IF ~Exists(pid)
    THEN /\ last' = Request("api_update_product", "", pid, Absent, Caught("NotFound"))
         /\ UNCHANGED <<products, cart, users, reg>>
    ELSE IF data.name = <<>> \/ data.category = <<>> \/ data.price.kind = "absent"
    THEN /\ last' = Request("api_update_product", "", pid, Absent, Caught("KeyError"))
         /\ UNCHANGED <<products, cart, users, reg>>
    ELSE IF ~PyFloat(data.price).ok
    THEN /\ last' = Request("api_update_product", "", pid, Absent, Caught("ValueError"))
         /\ UNCHANGED <<products, cart, users, reg>>
    ELSE /\ products' = ProductsAfterUpdate(products, pid, data)
         /\ last' = Request("api_update_product", "", pid, Absent,
                        Response(200, "true", ""))
         /\ UNCHANGED <<cart, users, reg>>

\* DELETE /api/products/<int:product_id>
api_delete_product(pid) ==
    IF ~Exists(pid)
    THEN /\ last' = Request("api_delete_product", "", pid, Absent, Caught("NotFound"))
         /\ UNCHANGED <<products, cart, users, reg>>
    ELSE /\ products' = ProductsAfterDelete(products, pid)
         /\ last' = Request("api_delete_product", "", pid, Absent,
                        [Response(200, "true", "") EXCEPT !.name = products[pid].name])
         /\ UNCHANGED <<cart, users, reg>>

-----------------------------------------------------------------------------
(* Registration *)

IdleRequest == [pc |-> "idle", name |-> "", email |-> ""]

\* User.query.filter_by(email=...).first() is truthy
EmailRegistered(us, email) == \E i \in 1..Len(us) : us[i].email = email

\* Variant: the email column without unique=True
NoConstraint(us, email) == TRUE

\* email = db.Column(db.String(100), unique=True): the INSERT is accepted
UniqueEmail(us, email) == ~EmailRegistered(us, email)

\* generate_password_hash(password)
PasswordHash(pw) == <<"hash", pw>>

\* User(name=..., email=..., password=hashed); id and role by default
NewUser(us, name, email, pw) ==
    [id |-> Len(us) + 1, name |-> name, email |-> email,
     password |-> PasswordHash(pw), role |-> "user"]

\* POST /register up to the SELECT: validate_on_submit(), then the lookup
register(r, name, email, valid) ==
    /\ reg[r].pc = "idle"
    /\ IF ~valid
       THEN /\ last' = Registration(r, email, Response(200, "none", ""))
            /\ UNCHANGED <<products, cart, users, reg>>
       ELSE IF EmailRegistered(users, email)
       THEN /\ last' = Registration(r, email, Response(302, "none", "Conflict"))
            /\ UNCHANGED <<products, cart, users, reg>>
       ELSE /\ reg' = [reg EXCEPT ![r] = [pc |-> "insert", name |-> name,
                                           email |-> email]]
            /\ UNCHANGED <<products, cart, users, last>>

\* POST /register from db.session.add(user) to the redirect
register_commit(r, pw) ==
    /\ reg[r].pc = "insert"
    /\ reg' = [reg EXCEPT ![r] = IdleRequest]
    /\ IF UniqueEmail(users, reg[r].email)
       THEN /\ users' = Append(users, NewUser(users, reg[r].name, reg[r].email, pw))
            /\ last' = Registration(r, reg[r].email, Response(302, "none", ""))
            /\ UNCHANGED <<products, cart>>
       ELSE /\ last' = Registration(r, reg[r].email,
                                        Unhandled("IntegrityError"))
            /\ UNCHANGED <<products, cart, users>>

-----------------------------------------------------------------------------
(* Inputs *)
(* Form fields arrive as text or not at all; JSON members are taken here   *)
(* from integers, text and absence (null, floats, booleans and lists are   *)
(* not explored).  RegisterForm.validate_on_submit() is outside the        *)
(* sources at hand: its verdict is an input.                               *)

Sessions == {"s1", "s2"}

RequestIds == {1, 2, 999}

FormQuantities == {Absent, JStr(<<"0">>), JStr(<<"-", "1">>), JStr(<<"a">>)}

JsonProductIds == {JInt(p) : p \in RequestIds} \cup {Absent}

JsonQuantities == {Absent, JInt(2), JStr(<<"a">>)}

UpdatePayloads ==
    {[name |-> <<"Heirloom Tomatoes">>, category |-> <<"Organic">>, price |-> p] :
        p \in {JInt(450), JStr(<<"a">>), Absent}}
    \cup {[name |-> <<>>, category |-> <<"Organic">>, price |-> JInt(450)]}

RegisterRequests == {"r1", "r2"}

Emails == {"ann@farm.example", "bob@farm.example"}

Names == {"Ann"}

Passwords == {"secret"}

-----------------------------------------------------------------------------
(* Specifications *)

Start == Request("start", "", 0, Absent, Response(0, "none", ""))

\* one browser session on the seeded catalog
Init ==
    /\ products = SeedProducts
    /\ cart = [s \in {"s1"} |-> EmptyDict]
    /\ users = <<>>
    /\ reg = [r \in RegisterRequests |-> IdleRequest]
    /\ last = Start

\* two browser sessions, on the catalog as DELETE /api/products/2 leaves it
InitSessions ==
    /\ products = ProductsAfterDelete(SeedProducts, 2)
    /\ cart = [s \in Sessions |-> EmptyDict]
    /\ users = <<>>
    /\ reg = [r \in RegisterRequests |-> IdleRequest]
    /\ last = Start

Next ==
    \/ \E s \in DOMAIN cart, pid \in RequestIds, fq \in FormQuantities :
           add_to_cart(s, pid, fq)
    \/ \E s \in DOMAIN cart : view_cart(s)
    \/ \E s \in DOMAIN cart, pid \in RequestIds : remove_from_cart(s, pid)
    \/ \E s \in DOMAIN cart : api_get_cart(s)
    \/ \E s \in DOMAIN cart, jp \in JsonProductIds, jq \in JsonQuantities :
           api_add_to_cart(s, jp, jq)
    \/ \E s \in DOMAIN cart, pid \in RequestIds : api_remove_from_cart(s, pid)
    \/ \E pid \in RequestIds, data \in UpdatePayloads : api_update_product(pid, data)
    \/ \E pid \in RequestIds : api_delete_product(pid)

NextRegister ==
    \/ \E r \in RegisterRequests, n \in Names, e \in Emails, valid \in BOOLEAN :
           register(r, n, e, valid)
    \/ \E r \in RegisterRequests, pw \in Passwords : register_commit(r, pw)

Spec == Init /\ [][Next]_vars

SpecSessions == InitSessions /\ [][Next]_vars

SpecRegister == Init /\ [][NextRegister]_vars

-----------------------------------------------------------------------------
(* Properties *)

AddOps == {"add_to_cart", "api_add_to_cart"}

RemoveOps == {"remove_from_cart", "api_remove_from_cart"}

CartOps == AddOps \cup RemoveOps \cup {"view_cart", "api_get_cart"}

\* the quantity an add request asks for, after the route's own coercion
Requested(r) ==
    IF r.op = "add_to_cart"
    THEN JInt(PyInt(GetOr(r.qty, JInt(1))).n)
    ELSE GetOr(r.qty, JInt(1))

NonNumeric(q) == q.kind = "str" /\ ~IsIntLiteral(q.s)

\* sum of price * quantity over the lines `keys` of c, all of integer quantity
RECURSIVE ValueOf(_, _)
ValueOf(c, keys) ==
    IF keys = {} THEN 0
    ELSE LET k == CHOOSE x \in keys : TRUE
         IN c[k].price * c[k].quantity.n + ValueOf(c, keys \ {k})

RECURSIVE SubtotalsOf(_)
SubtotalsOf(items) ==
    IF items = {} THEN 0
    ELSE LET it == CHOOSE x \in items : TRUE
         IN it.subtotal + SubtotalsOf(items \ {it})

\* C1: a successful add (either surface) of a product whose line is already in
\* the session's cart leaves the set of lines as it was, adds the requested
\* quantity to that line and keeps the line's stored name and price; a
\* successful add of a product with no line stores the product's name and
\* price as they are at that moment; product updates and deletions change no
\* cart. Hence after Add(p, q1) and a later Add(p, q2) the one line for p holds
\* q1 + q2 with the name and price of the first add.
C1_RepeatAddKeepsSnapshot ==
    [][ /\ (last'.op \in AddOps /\ last'.resp.success = "true") =>
             LET s == last'.sid
                 k == Str(last'.pid)
                 q == Requested(last')
             IN  IF k \in DOMAIN cart[s]
                 THEN /\ DOMAIN cart'[s] = DOMAIN cart[s]
                      /\ \A x \in DOMAIN cart[s] \ {k} : cart'[s][x] = cart[s][x]
                      /\ cart'[s][k].name = cart[s][k].name
                      /\ cart'[s][k].price = cart[s][k].price
                      /\ cart'[s][k].quantity.kind = cart[s][k].quantity.kind
                      /\ cart'[s][k].quantity.n = cart[s][k].quantity.n + q.n
                      /\ cart'[s][k].quantity.s = cart[s][k].quantity.s \o q.s
                 ELSE /\ DOMAIN cart'[s] = DOMAIN cart[s] \cup {k}
                      /\ cart'[s][k].name = products[last'.pid].name
                      /\ cart'[s][k].price = products[last'.pid].price
                      /\ cart'[s][k].quantity = q
        /\ (last'.op \in {"api_update_product", "api_delete_product"}) => cart' = cart
      ]_vars

\* C1 witness: a repeat add through /add_to_cart has brought the line of
\* product 1 to 1 + 1 while the product was renamed and repriced in between
C1_Witness ==
    /\ last.op = "add_to_cart" /\ last.resp.success = "true" /\ last.pid = 1
    /\ last.qty = Absent
    /\ cart["s1"][<<"1">>].quantity = JInt(2)
    /\ cart["s1"][<<"1">>].name = "Organic Tomatoes"
    /\ cart["s1"][<<"1">>].price = 399
    /\ products[1].name = "Heirloom Tomatoes"
    /\ products[1].price = 450

\* C2: an add that names a product id with no Product row always fails with
\* NotFound and leaves the cart unchanged
C2_MissingProductNotFound ==
    [][ (last'.op \in AddOps /\ last'.pid \in RequestIds \ DOMAIN products) =>
            /\ last'.resp.error = "NotFound"
            /\ last'.resp.success # "true"
            /\ cart' = cart
      ]_vars

\* C3: a remove of a product that has no line in the cart returns a
\* success-shaped response, raises nothing and leaves the cart unchanged
C3_RemoveAbsentSucceeds ==
    [][ (last'.op \in RemoveOps /\ Str(last'.pid) \notin DOMAIN cart[last'.sid]) =>
            /\ last'.resp.success = "true"
            /\ ~last'.resp.unhandled
            /\ cart' = cart
      ]_vars

\* C4: a GET /api/cart listing holds exactly the stored lines whose product
\* id is still in the catalog, its total is the sum of price * quantity over
\* the lines it returns, and its cart_count is the number of stored lines,
\* the unresolvable ones included
C4_ApiListDropsUnresolvable ==
    (last.op = "api_get_cart" /\ last.resp.success = "true") =>
        LET c == cart[last.sid]
            items == last.resp.items[1]
        IN  /\ \A it \in items : it.id \in DOMAIN products
            /\ {it.id : it \in items} =
                   {c[k].id : k \in {x \in DOMAIN c : c[x].id \in DOMAIN products}}
            /\ \A it \in items : it.subtotal = it.price * it.quantity.n
            /\ \A it \in items : \E k \in DOMAIN c :
                   /\ it.id = c[k].id /\ it.name = c[k].name
                   /\ it.price = c[k].price /\ it.quantity = c[k].quantity
            /\ last.resp.total = <<SubtotalsOf(items)>>
            /\ last.resp.cart_count = <<Cardinality(DOMAIN c)>>

\* C4 witness: a listing of a two-line cart after one of the two products
\* was deleted: one item returned, cart_count 2
C4_Witness ==
    /\ last.op = "api_get_cart" /\ last.resp.success = "true"
    /\ Cardinality(DOMAIN cart[last.sid]) = 2
    /\ Cardinality(last.resp.items[1]) = 1
    /\ last.resp.cart_count = <<2>>
    /\ last.resp.total # <<0>>

\* C5: the total the cart page computes is the sum of price * quantity over
\* all stored lines, and the cart_count of every successful add and API
\* remove is the number of lines in the cart after it
C5_TotalAndCount ==
    /\ (last.op = "view_cart" /\ last.resp.status = 200) =>
           last.resp.total = <<ValueOf(cart[last.sid], DOMAIN cart[last.sid])>>
    /\ (last.op \in AddOps \cup {"api_remove_from_cart"} /\ last.resp.success = "true") =>
           last.resp.cart_count = <<Cardinality(DOMAIN cart[last.sid])>>

\* C5 witness: an add answers cart_count 2 for a cart of two lines, one of
\* them of 2 units
C5_Witness ==
    /\ last.op \in AddOps /\ last.resp.success = "true"
    /\ last.resp.cart_count = <<2>>
    /\ \E k \in DOMAIN cart[last.sid] : cart[last.sid][k].quantity = JInt(2)

\* C6: no cart operation ends in an unhandled fault, and an add that names a
\* missing product or carries a non-numeric quantity ends in a failure
\* response (an HTTP error status, an error message, no success reported)
C6_MalformedInputTaggedFailure ==
    /\ last.op \in CartOps => ~last.resp.unhandled
    /\ (last.op \in AddOps
          /\ (last.pid \in RequestIds \ DOMAIN products \/ NonNumeric(last.qty))) =>
           /\ last.resp.success # "true"
           /\ last.resp.status >= 400
           /\ last.resp.error # ""

\* C7: a PUT /api/products/{id} for an id with no Product row fails with
\* NotFound and leaves the catalog as it was
C7_UpdateMissingProduct ==
    [][ (last'.op = "api_update_product" /\ last'.pid \notin DOMAIN products) =>
            /\ last'.resp.success = "false"
            /\ last'.resp.error = "NotFound"
            /\ last'.resp.status >= 400
            /\ products' = products
      ]_vars

\* C7 witness: PUT /api/products/999 was answered NotFound
C7_Witness ==
    /\ last.op = "api_update_product" /\ last.pid = 999
    /\ last.resp.error = "NotFound"
    /\ 999 \notin DOMAIN products

C9_SessionsIsolated ==
    [][ /\ \A t \in DOMAIN cart :
              cart'[t] # cart[t] =>
                 /\ last'.sid = t
                 /\ last'.op \in AddOps \cup RemoveOps
                 /\ last'.resp.success = "true"
        /\ (last'.op = "view_cart" /\ last'.resp.status = 200) =>
               last'.resp.total = <<ValueOf(cart[last'.sid], DOMAIN cart[last'.sid])>>
      ]_vars

\* C9 witness: both sessions hold a line for product 1, with different
\* quantities, right after an add in session s2
C9_Witness ==
    /\ last.op \in AddOps /\ last.sid = "s2" /\ last.resp.success = "true"
    /\ <<"1">> \in DOMAIN cart["s1"] /\ <<"1">> \in DOMAIN cart["s2"]
    /\ cart["s1"][<<"1">>].quantity # cart["s2"][<<"1">>].quantity

\* C10: every stored cart line has a quantity that is a positive integer
C10_QuantityPositiveInteger ==
    \A s \in DOMAIN cart : \A k \in DOMAIN cart[s] :
        /\ cart[s][k].quantity.kind = "int"
        /\ cart[s][k].quantity.n > 0

====
